---- MODULE Spec2Model ----
(***************************************************************************)
(* DBTui: a terminal client for PostgreSQL (db.go, ui.go and main).        *)
(*                                                                         *)
(* Go strings are modelled as sequences of bytes (ASCII codes), so that    *)
(* quoting, trimming, the statement guard's regular expression and         *)
(* sort.Strings are computed character by character as the code does.      *)
(* The status bar text is kept as the tuple <<colour tag, format, args>>   *)
(* that fmt.Sprintf was called with.                                       *)
(***************************************************************************)
EXTENDS Integers, Sequences, FiniteSets, TLC

VARIABLES
    \* ---- AppState (main: type AppState) and the widgets it owns
    currentSchema,   \* s.currentSchema
    currentTable,    \* s.currentTable
    schemaList,      \* main texts of the items of s.schemaList
    tableList,       \* main texts of the items of s.tableList
    columnTable,     \* cells of s.columnTable: a sequence of rows of cell texts
    resultTable,     \* cells of s.resultTable
    queryArea,       \* text of s.queryArea
    statusBar,       \* text of s.statusBar
    focus,           \* the widget s.app.GetFocus() returns
    previewLimit,    \* s.previewLimit
    \* ---- control
    app,             \* "startup" (main before app.Run), "running", "stopped"
    pc,              \* what the goroutine of main / the event loop is blocked in
    elapsed,         \* seconds the query in flight has been running
    timers,          \* toast goroutines in time.Sleep, oldest first
    queue,           \* updates queued by QueueUpdateDraw, oldest first
    \* ---- history
    lastTables,      \* the schema and the table names of the most recent
                     \* loadTables whose rows were all read
    \* ---- inputs and result of the pure functions (specification SpecText)
    in1, in2, fn, out

vars == <<currentSchema, currentTable, schemaList, tableList, columnTable,
          resultTable, queryArea, statusBar, focus, previewLimit, app, pc,
          elapsed, timers, queue, lastTables, in1, in2, fn, out>>

appVars == <<currentSchema, currentTable, schemaList, tableList, columnTable,
             resultTable, queryArea, statusBar, focus, app, pc,
             elapsed, timers, queue, lastTables>>

textVars == <<in1, in2, fn, out>>

----------------------------------------------------------------------------
(* Bounds of the model *)

\* longest identifier / query text drawn for the pure functions
MaxLen == 3
\* most rows a cursor yields
MaxRows == 1
\* most toast goroutines (asleep or queued) alive at once
MaxPending == 3

\* flag.Int("limit", 100, ...)
DefaultLimit == 100
\* time.Sleep(3 * time.Second) in toast
ToastDelay == 3
\* context.WithTimeout(..., 5*time.Second) of the catalog queries
CatalogDeadline == 5
\* context.WithTimeout(..., 30*time.Second) of runQueryInto
QueryDeadline == 30

----------------------------------------------------------------------------
(* Strings *)

Empty == <<>>

\* [a-z]
IsLower(c) == c >= 97 /\ c <= 122
\* [0-9]
IsDigit(c) == c >= 48 /\ c <= 57
\* \s of Go's regexp: [\t\n\f\r ]
IsReSpace(c) == c \in {9, 10, 12, 13, 32}
\* unicode.IsSpace on ASCII, as strings.TrimSpace uses it: \t \n \v \f \r and space
IsSpace(c) == c \in {9, 10, 11, 12, 13, 32}

RECURSIVE TrimLeft(_)
TrimLeft(s) ==
    IF s = <<>> THEN s
    ELSE IF IsSpace(Head(s)) THEN TrimLeft(Tail(s)) ELSE s

RECURSIVE TrimRight(_)
TrimRight(s) ==
    IF s = <<>> THEN s
    ELSE IF IsSpace(s[Len(s)]) THEN TrimRight(SubSeq(s, 1, Len(s) - 1)) ELSE s

\* strings.TrimSpace
TrimSpace(s) == TrimRight(TrimLeft(s))

\* strings.ReplaceAll(name, `"`, `""`)
RECURSIVE ReplaceAllQuotes(_)
ReplaceAllQuotes(s) ==
    IF s = <<>> THEN <<>>
    ELSE (IF Head(s) = 34 THEN <<34, 34>> ELSE <<Head(s)>>)
             \o ReplaceAllQuotes(Tail(s))

\* regexp `^[a-z_][a-z0-9_]*$`
MatchesPlainIdent(name) ==
    /\ Len(name) >= 1
    /\ IsLower(name[1]) \/ name[1] = 95
    /\ \A i \in 2..Len(name) :
          IsLower(name[i]) \/ IsDigit(name[i]) \/ name[i] = 95

\* a mutant of pgIdent: wraps in quotes without doubling the embedded ones
pgIdentNoEscape(name) ==
    IF name = <<>> THEN name
    ELSE IF MatchesPlainIdent(name) THEN name
    ELSE <<34>> \o name \o <<34>>

pgIdent(name) ==
    IF name = <<>> THEN name
    ELSE IF MatchesPlainIdent(name) THEN name
    ELSE <<34>> \o ReplaceAllQuotes(name) \o <<34>>

\* a mutant of hasMultipleStatements: the pattern lacks \s*, so the character
\* right after the semicolon decides
hasMultipleStatementsAdjacent(q) ==
    \E i \in 1..(Len(q) - 1) : q[i] = 59 /\ ~IsReSpace(q[i + 1])

\* multiStmtRe = `;\s*[^\s]` ; FindStringIndex(q) != nil
hasMultipleStatements(q) ==
    \E i \in 1..Len(q) :
        /\ q[i] = 59
        /\ \E j \in (i + 1)..Len(q) :
              /\ ~IsReSpace(q[j])
              /\ \A k \in (i + 1)..(j - 1) : IsReSpace(q[k])

\* the verb %d of fmt.Sprintf on a non-negative int
RECURSIVE Decimal(_)
Decimal(n) ==
    IF n < 10 THEN <<48 + n>>
    ELSE Decimal(n \div 10) \o <<48 + (n % 10)>>

\* a mutant of previewQuery: the table name is spliced in unquoted
previewQueryRawTable(schema, table, limit) ==
    <<83, 69, 76, 69, 67, 84, 32, 42, 32, 70, 82, 79, 77, 32>>
        \o pgIdent(schema) \o <<46>> \o table
        \o <<32, 76, 73, 77, 73, 84, 32>> \o Decimal(limit)

\* previewTable: fmt.Sprintf("SELECT * FROM %s LIMIT %d", ident, s.previewLimit)
previewQuery(schema, table, limit) ==
    <<83, 69, 76, 69, 67, 84, 32, 42, 32, 70, 82, 79, 77, 32>>
        \o pgIdent(schema) \o <<46>> \o pgIdent(table)
        \o <<32, 76, 73, 77, 73, 84, 32>> \o Decimal(limit)

\* s1 < s2 in Go's string order (bytewise lexicographic)
RECURSIVE StrLess(_, _)
StrLess(s1, s2) ==
    IF s2 = <<>> THEN FALSE
    ELSE IF s1 = <<>> THEN TRUE
    ELSE IF Head(s1) # Head(s2) THEN Head(s1) < Head(s2)
    ELSE StrLess(Tail(s1), Tail(s2))

RECURSIVE InsertSorted(_, _)
InsertSorted(x, ss) ==
    IF ss = <<>> THEN <<x>>
    ELSE IF StrLess(x, Head(ss)) THEN <<x>> \o ss
    ELSE <<Head(ss)>> \o InsertSorted(x, Tail(ss))

\* a mutant of SortStrings: the names stay in the order the database sent them
SortStringsAsRead(ss) == ss

\* sort.Strings
RECURSIVE SortStrings(_)
SortStrings(ss) ==
    IF ss = <<>> THEN <<>>
    ELSE InsertSorted(Head(ss), SortStrings(Tail(ss)))

Range(s) == {s[i] : i \in 1..Len(s)}

----------------------------------------------------------------------------
(* What the database can answer *)

S_analytics == <<97, 110, 97, 108, 121, 116, 105, 99, 115>>
S_public == <<112, 117, 98, 108, 105, 99>>
S_pg_toast == <<112, 103, 95, 116, 111, 97, 115, 116>>
S_pg_temp_1 == <<112, 103, 95, 116, 101, 109, 112, 95, 49>>
S_pg_toast_temp_1 ==
    <<112, 103, 95, 116, 111, 97, 115, 116, 95, 116, 101, 109, 112, 95, 49>>
S_Orders == <<79, 114, 100, 101, 114, 115>>
\* a"; b
S_oddTable == <<97, 34, 59, 32, 98>>
S_t == <<116>>
S_id == <<105, 100>>
S_v == <<118>>

\* schema names a catalog may hold
SchemaUniverse == {S_analytics, S_public, S_pg_toast}
\* base table names a schema may hold
TableUniverse == {S_oddTable}
\* (column_name, data_type, is_nullable) rows a table may have
ColumnUniverse == {<<S_id, <<105, 110, 116, 101, 103, 101, 114>>, <<78, 79>>>>}
\* field descriptions and values a query may return
FieldSets == {<<>>, <<S_id>>}
Nil == [nil |-> TRUE, s |-> <<>>]
Str(s) == [nil |-> FALSE, s |-> s]
CellValues == {Nil, Str(<<>>)}
\* errors a driver call may return
NoErr == "nil"
DbErr == "ERROR: connection reset"
TimeoutErr == "context deadline exceeded"

\* all sequences over S of length at most n
RECURSIVE SeqsUpTo(_, _)
SeqsUpTo(S, n) ==
    IF n = 0 THEN {<<>>}
    ELSE LET shorter == SeqsUpTo(S, n - 1)
         IN  shorter \cup {Append(q, x) : q \in shorter, x \in S}

\* all orderings of the elements of a set
RECURSIVE Orderings(_)
Orderings(S) ==
    IF S = {} THEN {<<>>}
    ELSE UNION {{<<x>> \o q : q \in Orderings(S \ {x})} : x \in S}

\* a mutant of SchemataRows: the WHERE clause is missing
SchemataRowsUnfiltered(catalog) == Orderings(catalog)

\* loadSchemas' SQL as the database evaluates it on a catalog: WHERE schema_name
\* NOT IN ('pg_toast', 'pg_temp_1', 'pg_toast_temp_1') ORDER BY schema_name, the
\* order being that of the database's collation
SchemataRows(catalog) ==
    Orderings(catalog \ {S_pg_toast, S_pg_temp_1, S_pg_toast_temp_1})

\* loadTables' SQL: the base tables of a schema, in the database's order
TablesRows == UNION {Orderings(T) : T \in SUBSET TableUniverse}

\* loadColumns' SQL: the columns of a table
ColumnsRows == SeqsUpTo(ColumnUniverse, MaxRows)

\* the rows a cursor with the given fields may yield
ResultRows(flds) ==
    SeqsUpTo([1..Len(flds) -> CellValues], MaxRows)

\* How a query ends: "issue" (pool.Query returns an error), "scan" (rows.Scan or
\* rows.Values fails on the row after those read), "rows" (rows.Next stops with
\* rows.Err() set), "none". After the deadline the context is cancelled and the
\* driver fails with its error.
Failures == {"none", "issue", "scan", "rows"}

Deadline(stage) ==
    IF stage \in {"preview", "adhoc"} THEN QueryDeadline ELSE CatalogDeadline

Outcomes ==
    {o \in [fail : Failures, err : {NoErr, DbErr, TimeoutErr}] :
        /\ (o.fail = "none") = (o.err = NoErr)
        /\ IF elapsed >= Deadline(pc.stage)
           THEN o.err = TimeoutErr
           ELSE o.err # TimeoutErr}

----------------------------------------------------------------------------
(* tview widgets *)

Max(a, b) == IF a >= b THEN a ELSE b

\* Table.SetCell(row, 0..len-1, ...) for the cells of one row (row 0 is index 1)
SetCells(t, row, texts) ==
    IF texts = <<>> THEN t
    ELSE [i \in 1..Max(Len(t), row) |->
            IF i = row
            THEN texts \o (IF i <= Len(t) /\ Len(t[i]) > Len(texts)
                           THEN SubSeq(t[i], Len(texts) + 1, Len(t[i]))
                           ELSE <<>>)
            ELSE IF i <= Len(t) THEN t[i] ELSE <<>>]

\* setHeader: " %s " for the first column, " | %s " for the others
setHeader(t, cols) ==
    SetCells(t, 1,
        [i \in 1..Len(cols) |->
            IF i = 1 THEN <<32>> \o cols[i] \o <<32>>
            ELSE <<32, 124, 32>> \o cols[i] \o <<32>>])

\* setRow: "%s" for the first column, " | %s" for the others
setRow(t, row, cols) ==
    SetCells(t, row + 1,
        [i \in 1..Len(cols) |->
            IF i = 1 THEN cols[i] ELSE <<32, 124, 32>> \o cols[i]])

\* setRow for rows 1, 2, ... in turn
RECURSIVE setRows(_, _, _)
setRows(t, from, rowsCells) ==
    IF rowsCells = <<>> THEN t
    ELSE setRows(setRow(t, from, Head(rowsCells)), from + 1, Tail(rowsCells))

\* a mutant of cellText: NULL is rendered as the empty string
cellTextNullEmpty(v) == IF v.nil THEN <<>> ELSE v.s

\* runQueryInto: "NULL" for nil, fmt.Sprint(v) otherwise
cellText(v) == IF v.nil THEN <<78, 85, 76, 76>> ELSE v.s

\* a mutant of RenderResult: tbl.Clear() is missing, the new cells overwrite
\* those of the result displayed before
RenderResultNoClear(flds, rws) ==
    setRows(setHeader(resultTable, flds), 1,
            [r \in 1..Len(rws) |-> [c \in 1..Len(rws[r]) |-> cellText(rws[r][c])]])

\* the cells runQueryInto leaves in tbl after Clear, setHeader and the rows read
RenderResult(flds, rws) ==
    setRows(setHeader(<<>>, flds), 1,
            [r \in 1..Len(rws) |-> [c \in 1..Len(rws[r]) |-> cellText(rws[r][c])]])

\* the cells loadColumns leaves in columnTable
RenderColumns(rws) ==
    setRows(setHeader(<<>>, << <<67, 111, 108, 117, 109, 110>>,
                               <<84, 121, 112, 101>>,
                               <<78, 117, 108, 108, 97, 98, 108, 101>> >>),
            1, rws)

----------------------------------------------------------------------------
(* Notifications: the status bar, the sleeping toast goroutines, the queue *)

IdleMsg == <<"F5: Run | q: Quit | r: Refresh | Tab: Cycle Focus">>

Notif == [bar |-> statusBar, timers |-> timers, queue |-> queue]

\* a mutant of toast: no revert is scheduled
toastNoRevert(n, msg) == [n EXCEPT !.bar = <<"[yellow]">> \o msg]

\* toast: set the text, then start a goroutine that sleeps and queues the revert.
\* Each goroutine carries a history flag, near: its toast was posted less than
\* ToastDelay before the latest toast (it was still asleep when that was posted).
toast(n, msg) ==
    [bar |-> <<"[yellow]">> \o msg,
     timers |-> [i \in 1..Len(n.timers) |->
                    [age |-> n.timers[i].age,
                     near |-> n.timers[i].age < ToastDelay]]
                \o <<[age |-> 0, near |-> FALSE]>>,
     queue |-> [i \in 1..Len(n.queue) |-> FALSE]]

\* updateStatus
updateStatus(n, msg) == [n EXCEPT !.bar = msg]

Pending == Len(timers) + Len(queue)

----------------------------------------------------------------------------
(* Control: the goroutine of main, which becomes tview's event loop in app.Run.
   Every handler runs on it; a handler that queries the database blocks it
   until the driver returns. *)

NoTables == [schema |-> <<>>, tables |-> {}]

Idle == [stage |-> "idle", caller |-> "none", schema |-> <<>>, table |-> <<>>,
         err |-> NoErr, q |-> <<>>]

\* blocked in loadSchemas' pool.Query / rows.Next
InSchemas(caller) == [Idle EXCEPT !.stage = "schemas", !.caller = caller]

\* blocked in loadTables(schema); err is what loadSchemas will return
InTables(caller, schema, err) ==
    [Idle EXCEPT !.stage = "tables", !.caller = caller, !.schema = schema,
                 !.err = err]

\* blocked in loadColumns(schema, table)
InColumns(caller, schema, table, err) ==
    [Idle EXCEPT !.stage = "columns", !.caller = caller, !.schema = schema,
                 !.table = table, !.err = err]

\* blocked in runQueryInto(q, s.resultTable)
InQuery(stage, caller, schema, table, err, q) ==
    [stage |-> stage, caller |-> caller, schema |-> schema, table |-> table,
     err |-> err, q |-> q]

\* previewTable(schema, table)
previewTable(caller, schema, table, err) ==
    InQuery("preview", caller, schema, table, err,
            previewQuery(schema, table, previewLimit))

SetNotif(n) ==
    /\ statusBar' = n.bar
    /\ timers' = n.timers
    /\ queue' = n.queue

\* a mutant of AfterLoad: the refresh key reports a failed loadSchemas
AfterLoadReporting(caller, err, n) ==
    CASE caller = "main" ->
            updateStatus(IF err # NoErr
                         THEN toast(n, <<"Failed to load schemas: %v", err>>)
                         ELSE n, IdleMsg)
      [] caller = "refresh" ->
            IF err # NoErr
            THEN toast(n, <<"Failed to load schemas: %v", err>>)
            ELSE toast(n, <<"Refreshed schemas and tables.">>)
      [] OTHER -> n

\* what the caller does once its last database call has returned: main after
\* loadSchemas (toast on error, updateStatus, app.Run), the refresh key after
\* loadSchemas (toast), the other handlers nothing
AfterLoad(caller, err, n) ==
    CASE caller = "main" ->
            updateStatus(IF err # NoErr
                         THEN toast(n, <<"Failed to load schemas: %v", err>>)
                         ELSE n, IdleMsg)
      [] caller = "refresh" -> toast(n, <<"Refreshed schemas and tables.">>)
      [] OTHER -> n

\* the handler (or main's start-up) returns to the event loop
Return(caller, err, n) ==
    /\ SetNotif(AfterLoad(caller, err, n))
    /\ app' = IF caller = "main" THEN "running" ELSE app
    /\ pc' = Idle
    /\ elapsed' = 0

Init ==
    /\ currentSchema = <<>>
    /\ currentTable = <<>>
    /\ schemaList = <<>>
    /\ tableList = <<>>
    /\ columnTable = <<>>
    /\ resultTable = <<>>
    /\ queryArea = <<>>
    /\ statusBar = <<>>
    /\ focus = "schemaList"
    /\ previewLimit = DefaultLimit
    /\ app = "startup"
    /\ pc = InSchemas("main")
    /\ elapsed = 0
    /\ timers = <<>>
    /\ queue = <<>>
    /\ lastTables = NoTables
    /\ in1 = <<>>
    /\ in2 = <<>>
    /\ fn = "none"
    /\ out = <<>>

Live == app # "stopped"
\* the event loop is waiting in its select
AtLoop == app = "running" /\ pc.stage = "idle"
\* no goroutine's sleep is over (waking and queueing take no time)
NoneDue == \A i \in 1..Len(timers) : timers[i].age < ToastDelay
\* the event loop takes the next key: what was queued before the key was
\* pressed has run
AtKey == AtLoop /\ NoneDue /\ queue = <<>>

\* the rows read before the query ended: all of them on success, none when the
\* query failed at issue
ReadOf(o, all, k) ==
    /\ k \in 0..Len(all)
    /\ o.fail = "none" => k = Len(all)
    /\ o.fail = "issue" => k = 0

\* loadSchemas, from its query's answer on
SchemasAnswer(catalog, all, k, o) ==
    /\ Live
    /\ pc.stage = "schemas"
    /\ all \in SchemataRows(catalog)
    /\ ReadOf(o, all, k)
    /\ LET schemas == SortStrings(SubSeq(all, 1, k))
       IN  CASE o.fail = "issue" ->
                  /\ UNCHANGED <<schemaList, currentSchema>>
                  /\ Return(pc.caller, o.err, Notif)
             [] o.fail = "scan" ->
                  /\ schemaList' = <<>>
                  /\ UNCHANGED currentSchema
                  /\ Return(pc.caller, o.err, Notif)
             [] OTHER ->
                  /\ schemaList' = schemas
                  /\ IF Len(schemas) > 0
                     THEN /\ currentSchema' = schemas[1]
                          /\ pc' = InTables(pc.caller, schemas[1], o.err)
                          /\ elapsed' = 0
                          /\ UNCHANGED <<statusBar, timers, queue, app>>
                     ELSE /\ UNCHANGED currentSchema
                          /\ Return(pc.caller, o.err, Notif)
    /\ UNCHANGED <<currentTable, tableList, columnTable, resultTable, queryArea,
                   focus, previewLimit, lastTables, textVars>>

SchemasDone ==
    \E catalog \in SUBSET SchemaUniverse, o \in Outcomes :
        \E all \in SchemataRows(catalog) :
            \E k \in 0..Len(all) : SchemasAnswer(catalog, all, k, o)

\* loadTables(pc.schema), from its query's answer on
TablesAnswer(all, k, o) ==
    /\ Live
    /\ pc.stage = "tables"
    /\ all \in TablesRows
    /\ ReadOf(o, all, k)
    /\ LET tables == SubSeq(all, 1, k)
       IN  CASE o.fail = "issue" ->
                  /\ UNCHANGED <<tableList, currentTable, columnTable, resultTable,
                                 lastTables>>
                  /\ Return(pc.caller, pc.err,
                            toast(Notif, <<"load tables: %v", o.err>>))
             [] o.fail = "scan" ->
                  /\ tableList' = <<>>
                  /\ UNCHANGED <<currentTable, columnTable, resultTable,
                                 lastTables>>
                  /\ Return(pc.caller, pc.err, toast(Notif, <<"scan: %v", o.err>>))
             [] OTHER ->
                  /\ tableList' = tables
                  /\ lastTables' = [schema |-> pc.schema, tables |-> Range(tables)]
                  /\ IF Len(tables) > 0
                     THEN /\ currentTable' = tables[1]
                          /\ pc' = InColumns(pc.caller, pc.schema, tables[1], pc.err)
                          /\ elapsed' = 0
                          /\ UNCHANGED <<columnTable, resultTable, statusBar,
                                         timers, queue, app>>
                     ELSE /\ columnTable' = <<>>
                          /\ resultTable' = <<>>
                          /\ UNCHANGED currentTable
                          /\ Return(pc.caller, pc.err, Notif)
    /\ UNCHANGED <<currentSchema, schemaList, queryArea, focus, previewLimit,
                   textVars>>

TablesDone ==
    \E o \in Outcomes, all \in TablesRows :
        \E k \in 0..Len(all) : TablesAnswer(all, k, o)

\* loadColumns(pc.schema, pc.table), from its query's answer on, and the call
\* of previewTable that follows it in both callers
ColumnsAnswer(all, k, o) ==
    /\ Live
    /\ pc.stage = "columns"
    /\ all \in ColumnsRows
    /\ ReadOf(o, all, k)
    /\ CASE o.fail = "issue" ->
              /\ UNCHANGED columnTable
              /\ SetNotif(toast(Notif, <<"load columns: %v", o.err>>))
         [] o.fail = "scan" ->
              /\ columnTable' = RenderColumns(SubSeq(all, 1, k))
              /\ SetNotif(toast(Notif, <<"scan: %v", o.err>>))
         [] OTHER ->
              /\ columnTable' = RenderColumns(SubSeq(all, 1, k))
              /\ UNCHANGED <<statusBar, timers, queue>>
    /\ pc' = previewTable(pc.caller, pc.schema, pc.table, pc.err)
    /\ elapsed' = 0
    /\ UNCHANGED <<currentSchema, currentTable, schemaList, tableList,
                   resultTable, queryArea, focus, previewLimit, app, lastTables,
                   textVars>>

ColumnsDone ==
    \E o \in Outcomes, all \in ColumnsRows :
        \E k \in 0..Len(all) : ColumnsAnswer(all, k, o)

\* a mutant of QueryResultTable: the table is cleared only once the cursor is
\* exhausted without error
QueryResultTableAtomic(flds, rws, o) ==
    IF o.fail = "none" THEN RenderResult(flds, rws) ELSE resultTable

\* runQueryInto: what tbl holds when it returns
QueryResultTable(flds, rws, o) ==
    IF o.fail = "issue" THEN resultTable ELSE RenderResult(flds, rws)

\* runQueryInto: the toast it posts
QueryToast(k, o) ==
    CASE o.fail = "issue" -> <<"query error: %v", o.err>>
      [] o.fail = "scan" -> <<"row error: %v", o.err>>
      [] o.fail = "rows" -> <<"rows err: %v", o.err>>
      [] OTHER -> <<"%d rows in %s", k, "elapsed">>

\* runQueryInto(pc.q, s.resultTable), from its query's answer on
QueryAnswer(flds, all, k, o) ==
    /\ Live
    /\ pc.stage \in {"preview", "adhoc"}
    /\ flds \in FieldSets
    /\ all \in ResultRows(flds)
    /\ ReadOf(o, all, k)
    /\ resultTable' = QueryResultTable(flds, SubSeq(all, 1, k), o)
    /\ Return(pc.caller, pc.err, toast(Notif, QueryToast(k, o)))
    /\ UNCHANGED <<currentSchema, currentTable, schemaList, tableList,
                   columnTable, queryArea, focus, previewLimit, lastTables,
                   textVars>>

QueryDone ==
    \E o \in Outcomes, flds \in FieldSets :
        \E all \in ResultRows(flds) :
            \E k \in 0..Len(all) : QueryAnswer(flds, all, k, o)

----------------------------------------------------------------------------
(* Key events, handled on the event loop *)

\* texts the operator may have typed into the query area
\* "x;" followed by a vertical tab, "x;y" and "q"
QueryTexts == {<<120, 59, 11>>, <<120, 59, 121>>, <<113>>}

\* the event loop takes a key only while the toasts the handler may post fit
CanPost(n) == Pending + n <= MaxPending

\* a mutant of KeyQuit: the focus is not consulted
KeyQuitAnywhere ==
    /\ AtKey
    /\ app' = "stopped"
    /\ currentSchema' = <<>>
    /\ currentTable' = <<>>
    /\ schemaList' = <<>>
    /\ tableList' = <<>>
    /\ columnTable' = <<>>
    /\ resultTable' = <<>>
    /\ queryArea' = <<>>
    /\ statusBar' = <<>>
    /\ focus' = "none"
    /\ timers' = <<>>
    /\ queue' = <<>>
    /\ lastTables' = NoTables
    /\ UNCHANGED <<previewLimit, pc, elapsed, textVars>>

\* global input capture: 'q' / 'Q' outside the query area: s.app.Stop(); app.Run
\* returns, main returns and the process ends, its widgets and goroutines with it
KeyQuit ==
    /\ AtKey
    /\ focus # "queryArea"
    /\ app' = "stopped"
    /\ currentSchema' = <<>>
    /\ currentTable' = <<>>
    /\ schemaList' = <<>>
    /\ tableList' = <<>>
    /\ columnTable' = <<>>
    /\ resultTable' = <<>>
    /\ queryArea' = <<>>
    /\ statusBar' = <<>>
    /\ focus' = "none"
    /\ timers' = <<>>
    /\ queue' = <<>>
    /\ lastTables' = NoTables
    /\ UNCHANGED <<previewLimit, pc, elapsed, textVars>>

\* global input capture: 'r' / 'R' outside the query area: s.loadSchemas()
KeyRefresh ==
    /\ AtKey
    /\ focus # "queryArea"
    /\ CanPost(3)
    /\ pc' = InSchemas("refresh")
    /\ elapsed' = 0
    /\ UNCHANGED <<currentSchema, currentTable, schemaList, tableList,
                   columnTable, resultTable, queryArea, statusBar, focus,
                   previewLimit, app, timers, queue, lastTables, textVars>>

\* a key the global capture passes on while the query area has the focus
TypeText ==
    /\ AtKey
    /\ focus = "queryArea"
    /\ \E t \in QueryTexts \ {queryArea} : queryArea' = t
    /\ UNCHANGED <<currentSchema, currentTable, schemaList, tableList,
                   columnTable, resultTable, statusBar, focus, previewLimit,
                   app, pc, elapsed, timers, queue, lastTables, textVars>>

\* a mutant of runAdhocQuery: the statement guard is not consulted
runAdhocQueryUnguarded(text) ==
    LET q == TrimSpace(text)
    IN  IF q = <<>>
        THEN UNCHANGED <<pc, statusBar, timers, queue>>
        ELSE /\ pc' = InQuery("adhoc", "adhoc", <<>>, <<>>, NoErr, q)
             /\ UNCHANGED <<statusBar, timers, queue>>

\* runAdhocQuery(text), up to the call of pool.Query
runAdhocQuery(text) ==
    LET q == TrimSpace(text)
    IN  IF q = <<>>
        THEN UNCHANGED <<pc, statusBar, timers, queue>>
        ELSE IF hasMultipleStatements(q)
        THEN /\ SetNotif(toast(Notif,
                   <<"Multiple statements detected; please run one at a time.">>))
             /\ UNCHANGED pc
        ELSE /\ pc' = InQuery("adhoc", "adhoc", <<>>, <<>>, NoErr, q)
             /\ UNCHANGED <<statusBar, timers, queue>>

\* global input capture: F5, whatever has the focus
KeyF5 ==
    /\ AtKey
    /\ CanPost(1)
    /\ runAdhocQuery(queryArea)
    /\ elapsed' = 0
    /\ UNCHANGED <<currentSchema, currentTable, schemaList, tableList,
                   columnTable, resultTable, queryArea, focus, previewLimit,
                   app, lastTables, textVars>>

\* a mutant of cycleFocus: the result table is skipped
cycleFocusSkipResults(p) ==
    CASE p = "schemaList" -> "tableList"
      [] p = "tableList" -> "columnTable"
      [] p = "columnTable" -> "queryArea"
      [] OTHER -> "schemaList"

\* cycleFocus
cycleFocus(p) ==
    CASE p = "schemaList" -> "tableList"
      [] p = "tableList" -> "columnTable"
      [] p = "columnTable" -> "resultTable"
      [] p = "resultTable" -> "queryArea"
      [] OTHER -> "schemaList"

\* global input capture: Tab
KeyTab ==
    /\ AtKey
    /\ focus' = cycleFocus(focus)
    /\ UNCHANGED <<currentSchema, currentTable, schemaList, tableList,
                   columnTable, resultTable, queryArea, statusBar, previewLimit,
                   app, pc, elapsed, timers, queue, lastTables, textVars>>

\* schemaList's selected handler, up to loadTables' pool.Query
SelectSchema(i) ==
    /\ AtKey
    /\ focus = "schemaList"
    /\ i \in 1..Len(schemaList)
    /\ CanPost(2)
    /\ currentSchema' = schemaList[i]
    /\ pc' = InTables("selectSchema", schemaList[i], NoErr)
    /\ elapsed' = 0
    /\ UNCHANGED <<currentTable, schemaList, tableList, columnTable,
                   resultTable, queryArea, statusBar, focus, previewLimit, app,
                   timers, queue, lastTables, textVars>>

\* tableList's selected handler, up to loadColumns' pool.Query
SelectTable(i) ==
    /\ AtKey
    /\ focus = "tableList"
    /\ i \in 1..Len(tableList)
    /\ CanPost(2)
    /\ currentTable' = tableList[i]
    /\ pc' = InColumns("selectTable", currentSchema, tableList[i], NoErr)
    /\ elapsed' = 0
    /\ UNCHANGED <<currentSchema, schemaList, tableList, columnTable,
                   resultTable, queryArea, statusBar, focus, previewLimit, app,
                   timers, queue, lastTables, textVars>>

\* the event loop runs the function a toast goroutine queued: updateStatus(idle)
RunQueued ==
    /\ AtLoop
    /\ queue # <<>>
    /\ statusBar' = IdleMsg
    /\ queue' = Tail(queue)
    /\ UNCHANGED <<currentSchema, currentTable, schemaList, tableList,
                   columnTable, resultTable, queryArea, focus, previewLimit,
                   app, pc, elapsed, timers, lastTables, textVars>>

----------------------------------------------------------------------------
(* Goroutines and time *)

\* a mutant of TimerFire: the goroutine sets the status bar itself
TimerFireDirect ==
    /\ Live
    /\ timers # <<>>
    /\ timers[1].age >= ToastDelay
    /\ statusBar' = IdleMsg
    /\ timers' = Tail(timers)
    /\ UNCHANGED <<currentSchema, currentTable, schemaList, tableList,
                   columnTable, resultTable, queryArea, focus, queue,
                   previewLimit, app, pc, elapsed, lastTables, textVars>>

\* a toast goroutine wakes from time.Sleep and calls QueueUpdateDraw; all sleep
\* equally long, so they wake in the order they were started
TimerFire ==
    /\ Live
    /\ timers # <<>>
    /\ timers[1].age >= ToastDelay
    /\ queue' = Append(queue, timers[1].near)
    /\ timers' = Tail(timers)
    /\ UNCHANGED <<currentSchema, currentTable, schemaList, tableList,
                   columnTable, resultTable, queryArea, statusBar, focus,
                   previewLimit, app, pc, elapsed, lastTables, textVars>>

\* the seconds until something can next happen: one while a toast goroutine is
\* still asleep, otherwise all that is left before the deadline of the query in
\* flight
TimeStep ==
    IF \E i \in 1..Len(timers) : timers[i].age < ToastDelay
    THEN 1
    ELSE Deadline(pc.stage) - elapsed

\* time passes, once the goroutines whose sleep is over have woken and an idle
\* event loop has run what is queued; the context of the query in flight is
\* cancelled at its deadline, so the driver returns by then
Tick ==
    /\ Live
    /\ NoneDue
    /\ AtLoop => queue = <<>>
    /\ pc.stage # "idle" => elapsed < Deadline(pc.stage)
    /\ pc.stage # "idle" \/ \E i \in 1..Len(timers) : timers[i].age < ToastDelay
    /\ elapsed' = IF pc.stage # "idle" THEN elapsed + TimeStep ELSE elapsed
    /\ timers' = [i \in 1..Len(timers) |->
                    [timers[i] EXCEPT !.age = IF @ < ToastDelay THEN @ + 1 ELSE @]]
    /\ UNCHANGED <<currentSchema, currentTable, schemaList, tableList,
                   columnTable, resultTable, queryArea, statusBar, focus,
                   previewLimit, app, pc, queue, lastTables, textVars>>

----------------------------------------------------------------------------
(* The pure functions, applied to inputs drawn from bounded sets *)

\* a, A, 1, _, the double quote, the semicolon, the space and the vertical tab
Alphabet == {97, 65, 49, 95, 34, 59, 32, 11}

\* identifiers and query texts the functions are applied to
Texts == SeqsUpTo(Alphabet, MaxLen) \cup {S_public, S_analytics}
\* table names for previewTable: empty, Orders, a"b, t
TableNames == {<<>>, S_Orders, <<97, 34, 98>>, S_t}
\* values of the -limit flag
Limits == {1, DefaultLimit}

InitText ==
    /\ currentSchema = <<>>
    /\ currentTable = <<>>
    /\ schemaList = <<>>
    /\ tableList = <<>>
    /\ columnTable = <<>>
    /\ resultTable = <<>>
    /\ queryArea = <<>>
    /\ statusBar = <<>>
    /\ focus = "schemaList"
    /\ previewLimit \in Limits
    /\ app = "startup"
    /\ pc = Idle
    /\ elapsed = 0
    /\ timers = <<>>
    /\ queue = <<>>
    /\ lastTables = NoTables
    /\ in1 \in Texts
    /\ in2 \in TableNames
    /\ fn = "none"
    /\ out = <<>>

\* pgIdent(in1)
CallPgIdent ==
    /\ fn = "none"
    /\ fn' = "pgIdent"
    /\ out' = pgIdent(in1)
    /\ UNCHANGED <<appVars, previewLimit, in1, in2>>

\* previewTable(in1, in2): the query text it hands to runQueryInto
CallPreviewTable ==
    /\ fn = "none"
    /\ fn' = "previewTable"
    /\ out' = previewTable("text", in1, in2, NoErr).q
    /\ UNCHANGED <<appVars, previewLimit, in1, in2>>

\* hasMultipleStatements(in1)
CallHasMultipleStatements ==
    /\ fn = "none"
    /\ fn' = "hasMultipleStatements"
    /\ out' = hasMultipleStatements(in1)
    /\ UNCHANGED <<appVars, previewLimit, in1, in2>>

NextText ==
    \/ CallPgIdent
    \/ CallPreviewTable
    \/ CallHasMultipleStatements

SpecText == InitText /\ [][NextText]_vars

----------------------------------------------------------------------------
(* The application *)

\* what happens whatever the operator does: goroutines run, time passes, and
\* the operator moves the focus or quits
Background ==
    \/ KeyQuit
    \/ KeyTab
    \/ RunQueued
    \/ TimerFire
    \/ Tick

\* an operator who browses the catalog, from the start of main on
NextBrowse ==
    \/ Background
    \/ SchemasDone
    \/ TablesDone
    \/ ColumnsDone
    \/ QueryDone
    \/ KeyRefresh
    \/ \E i \in 1..Cardinality(SchemaUniverse) : SelectSchema(i)
    \/ \E i \in 1..Cardinality(TableUniverse) : SelectTable(i)

SpecBrowse == Init /\ [][NextBrowse]_vars

\* app.Run has been entered after a start-up in which loadSchemas found no
\* schema (SchemasAnswer({}, <<>>, 0, no failure) from Init)
InitQuery ==
    /\ currentSchema = <<>>
    /\ currentTable = <<>>
    /\ schemaList = <<>>
    /\ tableList = <<>>
    /\ columnTable = <<>>
    /\ resultTable = <<>>
    /\ queryArea = <<>>
    /\ statusBar = IdleMsg
    /\ focus = "schemaList"
    /\ previewLimit = DefaultLimit
    /\ app = "running"
    /\ pc = Idle
    /\ elapsed = 0
    /\ timers = <<>>
    /\ queue = <<>>
    /\ lastTables = NoTables
    /\ in1 = <<>>
    /\ in2 = <<>>
    /\ fn = "none"
    /\ out = <<>>

\* an operator who runs queries from the query area
NextQuery ==
    \/ Background
    \/ QueryDone
    \/ TypeText
    \/ KeyF5

SpecQuery == InitQuery /\ [][NextQuery]_vars

Next == NextBrowse \/ NextQuery

Spec == Init /\ [][Next]_vars

\* the state SpecQuery starts in is one the program reaches from Init
StartOfQueryNotReached ==
    ~(InitQuery)

----------------------------------------------------------------------------
(* Properties of the pure functions, under SpecText *)

\* body is name with every double quote written twice
RECURSIVE QuotesDoubled(_, _)
QuotesDoubled(body, name) ==
    IF name = <<>> THEN body = <<>>
    ELSE IF Head(name) = 34
    THEN /\ Len(body) >= 2
         /\ body[1] = 34
         /\ body[2] = 34
         /\ QuotesDoubled(SubSeq(body, 3, Len(body)), Tail(name))
    ELSE /\ Len(body) >= 1
         /\ body[1] = Head(name)
         /\ QuotesDoubled(Tail(body), Tail(name))

\* text starts and ends with a double quote and holds name between them, its
\* double quotes doubled
QuotedForm(text, name) ==
    /\ Len(text) >= 2
    /\ text[1] = 34
    /\ text[Len(text)] = 34
    /\ QuotesDoubled(SubSeq(text, 2, Len(text) - 1), name)

\* C9 as stated: pgIdent returns an identifier matching ^[a-z_][a-z0-9_]*$
\* unchanged, and for every other identifier returns a text that starts and
\* ends with a double quote with every embedded double quote doubled.
C9_AsStated ==
    fn = "pgIdent" =>
        IF MatchesPlainIdent(in1) THEN out = in1 ELSE QuotedForm(out, in1)

\* C9: pgIdent returns an identifier matching ^[a-z_][a-z0-9_]*$ unchanged and
\* the empty identifier unchanged; for every other identifier its output starts
\* and ends with a double quote and every embedded double quote is doubled.
C9_PgIdent ==
    fn = "pgIdent" =>
        IF MatchesPlainIdent(in1) \/ in1 = <<>>
        THEN out = in1
        ELSE QuotedForm(out, in1)

\* pgIdent has quoted a"A
C9_Witness ==
    /\ fn = "pgIdent"
    /\ in1 = <<97, 34, 65>>
    /\ out = <<34, 97, 34, 34, 65, 34>>

\* the number a text of decimal digits denotes
RECURSIVE DecimalValue(_)
DecimalValue(d) ==
    IF d = <<>> THEN 0
    ELSE 10 * DecimalValue(SubSeq(d, 1, Len(d) - 1)) + (d[Len(d)] - 48)

\* text is the decimal numeral of n, without sign or leading zero
IsNumeralOf(text, n) ==
    /\ Len(text) >= 1
    /\ \A i \in 1..Len(text) : IsDigit(text[i])
    /\ Len(text) > 1 => text[1] # 48
    /\ DecimalValue(text) = n

\* "SELECT * FROM "
SelectFrom == <<83, 69, 76, 69, 67, 84, 32, 42, 32, 70, 82, 79, 77, 32>>

\* SELECT * FROM public."Orders" LIMIT 100
PublicOrders100 ==
    <<83, 69, 76, 69, 67, 84, 32, 42, 32, 70, 82, 79, 77, 32,
      112, 117, 98, 108, 105, 99, 46, 34, 79, 114, 100, 101, 114, 115, 34,
      32, 76, 73, 77, 73, 84, 32, 49, 48, 48>>

\* C10: for every schema name, table name and limit N the query text previewTable
\* issues is SELECT * FROM <pgIdent(schema)>.<pgIdent(table)> LIMIT <N>; schema
\* public, table Orders and limit 100 give SELECT * FROM public."Orders" LIMIT 100.
C10_PreviewQueryText ==
    fn = "previewTable" =>
        /\ LET head == SelectFrom \o pgIdent(in1) \o <<46>> \o pgIdent(in2)
                          \o <<32, 76, 73, 77, 73, 84, 32>>
           IN  /\ Len(out) > Len(head)
               /\ SubSeq(out, 1, Len(head)) = head
               /\ IsNumeralOf(SubSeq(out, Len(head) + 1, Len(out)), previewLimit)
        /\ (in1 = S_public /\ in2 = S_Orders /\ previewLimit = 100)
              => out = PublicOrders100

\* previewTable has built the query for public, Orders at the default limit
C10_Witness ==
    /\ fn = "previewTable"
    /\ in1 = S_public
    /\ in2 = S_Orders
    /\ previewLimit = DefaultLimit
    /\ out = PublicOrders100

\* q holds a semicolon and, somewhere after it, a character that is not
\* whitespace in the sense of W
SemicolonThenText(q, W(_)) ==
    \E i \in 1..Len(q) : \E j \in (i + 1)..Len(q) : q[i] = 59 /\ ~W(q[j])

\* q holds no semicolon, or exactly one, which is followed only by whitespace in
\* the sense of W
AtMostTrailingSemicolon(q, W(_)) ==
    \/ \A i \in 1..Len(q) : q[i] # 59
    \/ \E i \in 1..Len(q) :
          /\ q[i] = 59
          /\ \A j \in 1..Len(q) : q[j] = 59 => j = i
          /\ \A j \in (i + 1)..Len(q) : W(q[j])

\* C11 as stated, whitespace being what Go calls a space (unicode.IsSpace, as in
\* strings.TrimSpace): hasMultipleStatements is true for every text with a
\* semicolon followed by a non-whitespace character, and false for every text
\* without a semicolon or with a single trailing one followed only by whitespace.
C11_AsStated ==
    fn = "hasMultipleStatements" =>
        /\ SemicolonThenText(in1, IsSpace) => out = TRUE
        /\ AtMostTrailingSemicolon(in1, IsSpace) => out = FALSE

\* C11: with whitespace being the class \s of the pattern (tab, newline, form
\* feed, carriage return, space), hasMultipleStatements is true for every text
\* with a semicolon followed by a non-whitespace character, and false for every
\* text without a semicolon or with a single trailing one followed only by
\* whitespace.
C11_HasMultipleStatements ==
    fn = "hasMultipleStatements" =>
        /\ SemicolonThenText(in1, IsReSpace) => out = TRUE
        /\ AtMostTrailingSemicolon(in1, IsReSpace) => out = FALSE

\* hasMultipleStatements has classified "; a" as multi-statement
C11_Witness ==
    /\ fn = "hasMultipleStatements"
    /\ in1 = <<59, 32, 97>>
    /\ out = TRUE

----------------------------------------------------------------------------
(* Properties of catalog browsing, under SpecBrowse *)

\* C5: whenever the event loop is waiting and currentTable is non-empty,
\* currentTable is one of the tables returned by the most recent table load,
\* and that load was performed for the current value of currentSchema.
C5_CurrentTableLoadedForCurrentSchema ==
    (AtLoop /\ currentTable # <<>>) =>
        /\ lastTables.schema = currentSchema
        /\ currentTable \in lastTables.tables

\* C7: whenever loadSchemas fails at its query or while scanning a row, at
\* start-up or on the refresh key, the status bar shows the notification of
\* that failure when the caller is done.
C7_LoadSchemasFailureShown ==
    [][pc.stage = "schemas" =>
         \A catalog \in SUBSET SchemaUniverse, o \in Outcomes :
            \A all \in SchemataRows(catalog) :
               \A k \in 0..Len(all) :
                  (/\ o.fail \in {"issue", "scan"}
                   /\ SchemasAnswer(catalog, all, k, o))
                     => statusBar' = <<"[yellow]", "Failed to load schemas: %v",
                                       o.err>>]_vars

\* the schemas loadSchemas' query leaves out
SystemSchemas == {S_pg_toast, S_pg_temp_1, S_pg_toast_temp_1}

\* a catalog, and some of its schema names in some order
CatalogAnswers ==
    UNION {{<<catalog, all>> : all \in UNION {Orderings(c) : c \in SUBSET catalog}} :
             catalog \in SUBSET SchemaUniverse}

\* C8: for every catalog, a successful loadSchemas makes the schema list exactly
\* the catalog's schema names minus the system schemas, in ascending order, and
\* when that list is non-empty sets currentSchema to its smallest name and
\* starts the table load for it.
C8_LoadSchemasSortedFiltered ==
    [][pc.stage = "schemas" =>
         \A case \in CatalogAnswers :
            LET catalog == case[1]
                all == case[2]
            IN SchemasAnswer(catalog, all, Len(all),
                             [fail |-> "none", err |-> NoErr])
                  => /\ Range(schemaList') = catalog \ SystemSchemas
                     /\ \A i, j \in 1..Len(schemaList') :
                           i < j => StrLess(schemaList'[i], schemaList'[j])
                     /\ schemaList' # <<>> =>
                           /\ currentSchema' = schemaList'[1]
                           /\ \A name \in catalog \ SystemSchemas :
                                 name = currentSchema'
                                    \/ StrLess(currentSchema', name)
                           /\ pc'.stage = "tables"
                           /\ pc'.schema = currentSchema']_vars

\* loadSchemas has listed analytics and public, selected analytics and is
\* loading its tables
C8_Witness ==
    /\ schemaList = <<S_analytics, S_public>>
    /\ currentSchema = S_analytics
    /\ pc.stage = "tables"
    /\ pc.schema = S_analytics

\* How the database reads an identifier at the head of a text: a quoted one
\* runs to the closing double quote, "" inside it standing for one double
\* quote; an unquoted one is a run of letters, digits and underscores that does
\* not start with a digit, and is folded to lower case.
RECURSIVE ScanQuoted(_, _)
ScanQuoted(text, name) ==
    IF text = <<>> THEN [ok |-> FALSE, name |-> name, rest |-> <<>>]
    ELSE IF text[1] # 34 THEN ScanQuoted(Tail(text), Append(name, text[1]))
    ELSE IF Len(text) >= 2 /\ text[2] = 34
    THEN ScanQuoted(SubSeq(text, 3, Len(text)), Append(name, 34))
    ELSE [ok |-> name # <<>>, name |-> name, rest |-> Tail(text)]

IsUpper(c) == c >= 65 /\ c <= 90

RECURSIVE ScanPlain(_, _)
ScanPlain(text, name) ==
    IF text # <<>> /\ (IsLower(text[1]) \/ IsUpper(text[1]) \/ text[1] = 95
                         \/ (IsDigit(text[1]) /\ name # <<>>))
    THEN ScanPlain(Tail(text),
                   Append(name, IF IsUpper(text[1]) THEN text[1] + 32
                                ELSE text[1]))
    ELSE [ok |-> name # <<>>, name |-> name, rest |-> text]

ScanIdent(text) ==
    IF text # <<>> /\ text[1] = 34 THEN ScanQuoted(Tail(text), <<>>)
    ELSE ScanPlain(text, <<>>)

\* q reads as the one statement SELECT * FROM schema.table LIMIT n
IsPreviewOf(q, schema, table, n) ==
    /\ Len(q) > Len(SelectFrom)
    /\ SubSeq(q, 1, Len(SelectFrom)) = SelectFrom
    /\ LET first == ScanIdent(SubSeq(q, Len(SelectFrom) + 1, Len(q)))
       IN  /\ first.ok
           /\ first.name = schema
           /\ first.rest # <<>>
           /\ first.rest[1] = 46
           /\ LET second == ScanIdent(Tail(first.rest))
                  limit == <<32, 76, 73, 77, 73, 84, 32>>
              IN  /\ second.ok
                  /\ second.name = table
                  /\ Len(second.rest) > Len(limit)
                  /\ SubSeq(second.rest, 1, Len(limit)) = limit
                  /\ IsNumeralOf(SubSeq(second.rest, Len(limit) + 1,
                                        Len(second.rest)), n)

\* C14: whatever the operator browses, no text of the query area is sent to the
\* database; the catalog loads send their fixed SELECT (pc.q empty: the names
\* travel as parameters), and a preview sends a text the database reads as the
\* single statement SELECT * FROM schema.table LIMIT N for the schema and table
\* being previewed, also when the table name holds a double quote, a semicolon
\* and a space.
C14_NavigationReadOnly ==
    /\ pc.stage # "adhoc"
    /\ pc.stage \in {"schemas", "tables", "columns"} => pc.q = <<>>
    /\ pc.stage = "preview" =>
          /\ pc.schema = currentSchema
          /\ pc.table = currentTable
          /\ IsPreviewOf(pc.q, pc.schema, pc.table, previewLimit)

\* the preview of table a"; b of schema analytics is in flight:
\* SELECT * FROM analytics."a""; b" LIMIT 100
C14_Witness ==
    /\ pc.stage = "preview"
    /\ pc.schema = S_analytics
    /\ pc.table = S_oddTable
    /\ pc.q = <<83, 69, 76, 69, 67, 84, 32, 42, 32, 70, 82, 79, 77, 32,
                97, 110, 97, 108, 121, 116, 105, 99, 115, 46,
                34, 97, 34, 34, 59, 32, 98, 34,
                32, 76, 73, 77, 73, 84, 32, 49, 48, 48>>

CatalogViewKept ==
    UNCHANGED <<currentSchema, currentTable, schemaList, tableList, columnTable>>

OneFailureNotice(err) ==
    /\ Len(timers') = Len(timers) + 1
    /\ Len(statusBar') = 3
    /\ statusBar'[1] = "[yellow]"
    /\ statusBar'[3] = err

C22_SelectedTableOfCurrentSchema ==
    [][\A i \in 1..Len(tableList) :
          SelectTable(i) =>
             /\ lastTables.schema = currentSchema
             /\ tableList[i] \in lastTables.tables
             /\ pc'.schema = lastTables.schema
             /\ pc'.table \in lastTables.tables]_vars

\* the status bar will show a notification of a timeout
TimeoutShown ==
    /\ Len(statusBar') = 3
    /\ statusBar'[1] = "[yellow]"
    /\ statusBar'[3] = TimeoutErr

\* C12: no query is in flight beyond its deadline (5 seconds for the catalog
\* queries, 30 for preview and ad-hoc queries), and when the database has not
\* answered a query by its deadline the step that returns from it leaves a
\* timeout notification on the status bar.
C12_DeadlineThenTimeoutNotice ==
    [][pc.stage # "idle" =>
         /\ elapsed <= Deadline(pc.stage)
         /\ \A o \in Outcomes :
               (o.fail = "issue" /\ o.err = TimeoutErr) =>
                  /\ \A catalog \in SUBSET SchemaUniverse :
                        SchemasAnswer(catalog, <<>>, 0, o) => TimeoutShown
                  /\ TablesAnswer(<<>>, 0, o) => TimeoutShown
                  /\ ColumnsAnswer(<<>>, 0, o) => TimeoutShown
                  /\ \A flds \in FieldSets :
                        QueryAnswer(flds, <<>>, 0, o) => TimeoutShown]_vars

\* C13: a notification after which no other was posted is not displayed for
\* longer than ToastDelay: once app.Run draws the screen, time does not pass
\* while the status bar shows a notification whose goroutine, the last one
\* started, has already woken.
C13_RevertedAfterToastDelay ==
    [][(Tick /\ app = "running" /\ timers = <<>> /\ queue # <<>>)
          => statusBar[1] # "[yellow]"]_vars

----------------------------------------------------------------------------
(* Properties of query execution and notifications, under SpecQuery *)

\* C1: when the revert of a toast that was posted less than ToastDelay before
\* the latest toast runs while the latest toast is still waiting for its own
\* revert and is the message shown, the status bar keeps showing that message.
C1_EarlierRevertKeepsLaterToast ==
    [][(/\ RunQueued
        /\ Head(queue)
        /\ timers # <<>>
        /\ timers[Len(timers)].age < ToastDelay
        /\ statusBar[1] = "[yellow]")
          => statusBar' = statusBar]_vars

\* C2: whenever runQueryInto fails while a result is displayed, at issue, on a
\* row, by the cursor's terminal error or by the deadline, the result table
\* holds after the call what it held before it, and the status bar shows a
\* notification carrying the error.
C2_FailedQueryKeepsResult ==
    [][(pc.stage \in {"preview", "adhoc"} /\ resultTable # <<>>) =>
         \A o \in Outcomes, flds \in FieldSets :
            \A all \in ResultRows(flds) :
               \A k \in 0..Len(all) :
                  (o.fail # "none" /\ QueryAnswer(flds, all, k, o))
                     => /\ resultTable' = resultTable
                        /\ Len(statusBar') = 3
                        /\ statusBar'[1] = "[yellow]"
                        /\ statusBar'[3] = o.err]_vars

\* C3: every run of runQueryInto either displays all rows of the cursor and
\* reports success, or reports a failure and shows no header or row that the
\* failed call put into the result table.
C3_NoPartialResult ==
    [][pc.stage \in {"preview", "adhoc"} =>
         \A o \in Outcomes, flds \in FieldSets :
            \A all \in ResultRows(flds) :
               \A k \in 0..Len(all) :
                  QueryAnswer(flds, all, k, o)
                     => \/ /\ o.fail = "none"
                           /\ resultTable' = RenderResult(flds, all)
                           /\ statusBar' = <<"[yellow]", "%d rows in %s",
                                             Len(all), "elapsed">>
                        \/ /\ o.fail # "none"
                           /\ statusBar'[3] = o.err
                           /\ resultTable' \in {resultTable, <<>>}]_vars

\* the notification of the statement guard
RejectionMsg ==
    <<"[yellow]", "Multiple statements detected; please run one at a time.">>

\* C4 as stated: for every text of the query area that the statement guard
\* classifies as multi-statement, F5 sends no query, posts the rejection
\* notification and leaves the result table unchanged.
C4_AsStated ==
    [][(KeyF5 /\ hasMultipleStatements(queryArea))
          => /\ pc'.stage = "idle"
             /\ statusBar' = RejectionMsg
             /\ resultTable' = resultTable]_vars

\* C4: for every text of the query area whose trimmed form the statement guard
\* classifies as multi-statement, F5 sends no query, posts the rejection
\* notification (with its revert scheduled) and leaves the result table
\* unchanged.
C4_GuardedTextRejected ==
    [][(KeyF5 /\ hasMultipleStatements(TrimSpace(queryArea)))
          => /\ pc'.stage = "idle"
             /\ statusBar' = RejectionMsg
             /\ Len(timers') = Len(timers) + 1
             /\ resultTable' = resultTable]_vars

\* F5 on "x;y" has been refused: the rejection is shown and no query is in
\* flight
C4_Witness ==
    /\ queryArea = <<120, 59, 121>>
    /\ statusBar = RejectionMsg
    /\ pc.stage = "idle"
    /\ timers # <<>>
    /\ timers[Len(timers)].age = 0

\* C6: while a query is in flight the event loop can still run a queued
\* display update such as a toast revert.
C6_LoopRunsUpdatesDuringQuery ==
    (app = "running" /\ pc.stage # "idle" /\ queue # <<>>) => ENABLED RunQueued

\* what a cell of a data row shows, without the column separator
ShownValue(t, row, col) ==
    IF col = 1 THEN t[row + 1][col]
    ELSE SubSeq(t[row + 1][col], 4, Len(t[row + 1][col]))

\* C15: after every successful query each cell whose value is NULL shows the
\* text NULL, and each cell whose value is a string shows that string, so that
\* a NULL and an empty string are shown differently.
C15_NullRenderedAsNULL ==
    [][pc.stage \in {"preview", "adhoc"} =>
         \A flds \in FieldSets :
            \A all \in ResultRows(flds) :
               QueryAnswer(flds, all, Len(all), [fail |-> "none", err |-> NoErr])
                  => \A r \in 1..Len(all), c \in 1..Len(flds) :
                        /\ all[r][c].nil =>
                              ShownValue(resultTable', r, c) = <<78, 85, 76, 76>>
                        /\ ~all[r][c].nil =>
                              ShownValue(resultTable', r, c) = all[r][c].s]_vars

\* a query has succeeded and its result shows column id with one NULL value
C15_Witness ==
    /\ resultTable = << <<<<32, 105, 100, 32>>>>, <<<<78, 85, 76, 76>>>> >>
    /\ statusBar = <<"[yellow]", "%d rows in %s", 1, "elapsed">>

\* schemas, tables, columns, results, query
PanelOrder ==
    <<"schemaList", "tableList", "columnTable", "resultTable", "queryArea">>

\* the panel after PanelOrder[i], the first one following the last
PanelAfter(i) == PanelOrder[(i % Len(PanelOrder)) + 1]

\* C16: every Tab press moves the focus to the next panel in the order schemas,
\* tables, columns, results, query, schemas; hence from each of the five panels
\* five presses lead back to it and pass through every panel exactly once.
C16_TabCyclesPanels ==
    [][KeyTab =>
         /\ \E i \in 1..Len(PanelOrder) :
               focus = PanelOrder[i] /\ focus' = PanelAfter(i)
         /\ LET p1 == cycleFocus(focus)
                p2 == cycleFocus(p1)
                p3 == cycleFocus(p2)
                p4 == cycleFocus(p3)
                p5 == cycleFocus(p4)
            IN  /\ p5 = focus
                /\ {p1, p2, p3, p4, p5} = Range(PanelOrder)
                /\ Cardinality({p1, p2, p3, p4, p5}) = 5]_vars

\* three Tab presses after the start have brought the focus to the result table
C16_Witness ==
    /\ focus = "resultTable"
    /\ app = "running"

\* the widgets
display ==
    <<schemaList, tableList, columnTable, resultTable, queryArea, statusBar,
      focus>>

\* C20: a toast goroutine that ends (while the process lives) has changed no
\* widget and has queued one update; and a queued update is taken off the queue
\* only by the event loop, running and outside any handler, which then sets the
\* status bar to the idle text.
C20_RevertThroughQueue ==
    [][/\ (app' # "stopped" /\ Len(timers') < Len(timers)) =>
             /\ display' = display
             /\ Len(queue') = Len(queue) + 1
       /\ (app' # "stopped" /\ Len(queue') < Len(queue)) =>
             /\ app = "running"
             /\ pc.stage = "idle"
             /\ statusBar' = IdleMsg]_vars

\* a toast goroutine has woken and queued its revert; the status bar still
\* shows the notification
C20_Witness ==
    /\ app = "running"
    /\ queue # <<>>
    /\ timers = <<>>
    /\ statusBar # <<>>
    /\ statusBar[1] = "[yellow]"

\* what a header cell shows, without padding and column separator
ShownHeader(t, col) ==
    IF col = 1 THEN SubSeq(t[1][col], 2, Len(t[1][col]) - 1)
    ELSE SubSeq(t[1][col], 4, Len(t[1][col]) - 1)

\* the number of data rows table t displays
RowsDisplayed(t) == IF t = <<>> THEN 0 ELSE Len(t) - 1

\* table t holds the field names flds as its header and the rows rws below it,
\* in their order, and no other cell; a result without fields has no cell
ShowsExactly(t, flds, rws) ==
    IF flds = <<>> THEN t = <<>>
    ELSE /\ Len(t) = 1 + Len(rws)
         /\ \A i \in 1..Len(t) : Len(t[i]) = Len(flds)
         /\ \A c \in 1..Len(flds) : ShownHeader(t, c) = flds[c]
         /\ \A r \in 1..Len(rws), c \in 1..Len(flds) :
               ShownValue(t, r, c) = (IF rws[r][c].nil THEN <<78, 85, 76, 76>>
                                      ELSE rws[r][c].s)

C23_KeysByFocus ==
    [][AtKey =>
         /\ focus = "queryArea" =>
               /\ ~ENABLED KeyQuit
               /\ ~ENABLED KeyRefresh
               /\ ENABLED TypeText
         /\ focus # "queryArea" =>
               /\ ENABLED (KeyQuit /\ app' = "stopped")
               /\ CanPost(3) =>
                     ENABLED (KeyRefresh /\ pc' = InSchemas("refresh"))
               /\ ~ENABLED TypeText
         /\ CanPost(1) => ENABLED KeyF5
         /\ KeyF5 =>
               /\ pc'.stage \in {"idle", "adhoc"}
               /\ pc'.stage = "adhoc" => pc'.q = TrimSpace(queryArea)
               /\ Len(timers') <= Len(timers) + 1
               /\ UNCHANGED <<app, queryArea, focus>>
         /\ TypeText => UNCHANGED <<app, pc, statusBar, focus>>]_vars

\* q has been typed into the query area, which has the focus, and the
\* application runs on
C23_Witness ==
    /\ focus = "queryArea"
    /\ queryArea = <<113>>
    /\ app = "running"

====
